---------------------------- MODULE Spec2Model ----------------------------
(***************************************************************************)
(* Model of the two speaker-diarization scripts:                           *)
(*   amazon_speaker_diarization.py  transcribe_with_speaker_diarization    *)
(*   google_speaker_diarization.py  transcribe_gcs_with_speaker_diarization*)
(*                                  transcribe_file_with_speaker_diarization*)
(* One call of one of the functions is followed from entry to its end      *)
(* (a returned mapping or a raised exception).  Remote services are the    *)
(* environment: every answer they can give is a nondeterministic choice.   *)
(*                                                                         *)
(* Representation.  A Python str is a TLA+ string; a Python list is a      *)
(* sequence; a Python dict that is only inspected with `in` and [] is a    *)
(* record (key present <=> key in DOMAIN); a dict that is built by the code *)
(* is a sequence of [k, v] entries in insertion order.  A URI is a sequence*)
(* of tokens in which every separator character is a token of its own.     *)
(***************************************************************************)
EXTENDS Integers, Sequences, FiniteSets, TLC

VARIABLES
    call,                 \* the function whose body runs: "amazon", "gcs", "file"
    file_size,            \* file: os.path.getsize(audio_file_path)
    pc,                   \* position in the function body
    outcome,              \* "running", "returned", or the exception raised
    error,                \* payload of the raised exception's message
    calls,                \* remote operations invoked so far in this run
    created,              \* a remote resource (job record / object) exists
    audio_file_uri,       \* amazon: the argument, while it is still read
    status,               \* amazon: last get_transcription_job response
    data,                 \* amazon: parsed transcript document
    bucket_name,          \* gcs: the bucket_name argument
    env_bucket,           \* gcs: os.environ.get("GCS_BUCKET_NAME")
    timeout,              \* gcs: the caller's timeout argument (seconds)
    now,                  \* gcs: time.time()
    start_time,           \* gcs: time.time() taken before the polling loop
    elapsed_time,         \* gcs: the loop's local of the same name
    op_done,              \* gcs: operation.done() has returned true
    response,             \* gcs: operation.result()
    speaker_transcripts,  \* the mapping under construction / returned
    cleanup_failed        \* the deletion raised and was only logged

vars == <<call, file_size, pc, outcome, error, calls, created, audio_file_uri, status,
          data, bucket_name, env_bucket, timeout, now, start_time,
          elapsed_time, op_done, response, speaker_transcripts, cleanup_failed>>

(***************************************************************************)
(* Bounds of the model.                                                    *)
(***************************************************************************)
MaxDocLen == 3      \* segments + items of one transcript document
MaxRespLen == 4     \* results + words of one recognition response
MaxTimeout == 25    \* largest timeout argument tried (seconds)
MaxJitter == 1      \* extra seconds one loop iteration may take

None == "None"      \* Python's None, for the str arguments

\* The values of locals that are not bound (or are read no more): the position
\* pc tells which locals are bound.  An unbound clock reading or timeout is 0.
NoUri == <<>>
NoData == [unbound |-> TRUE]

(***************************************************************************)
(* Python built-ins used by both scripts.                                  *)
(***************************************************************************)
RECURSIVE Join(_, _)
\* sep.join(parts)
Join(sep, parts) ==
    IF parts = <<>> THEN ""
    ELSE IF Len(parts) = 1 THEN parts[1]
    ELSE parts[1] \o sep \o Join(sep, Tail(parts))

\* key in d, for a dict built by the code
HasKey(d, key) == \E i \in 1..Len(d) : d[i].k = key

\* if key not in d: d[key] = []
DictSetDefault(d, key) ==
    IF HasKey(d, key) THEN d ELSE Append(d, [k |-> key, v |-> <<>>])

\* d[key].append(x)
DictAppend(d, key, x) ==
    [i \in 1..Len(d) |->
        IF d[i].k = key THEN [k |-> key, v |-> Append(d[i].v, x)] ELSE d[i]]

\* for speaker, parts in d.items(): d[speaker] = ' '.join(parts)
JoinValues(d) == [i \in 1..Len(d) |-> [k |-> d[i].k, v |-> Join(" ", d[i].v)]]

(***************************************************************************)
(* Amazon: segment reassembly (lines 74-110).                              *)
(***************************************************************************)
Digits == <<"0", "1", "2", "3", "4", "5", "6", "7", "8", "9">>

\* float(s) for the decimal numerals the service emits, in tenths of a second.
\* A numeral is a sequence of characters: digits, optionally "." and one digit.
DigitValue(c) == (CHOOSE i \in 1..10 : Digits[i] = c) - 1

RECURSIVE IntValue(_)
IntValue(cs) ==
    IF cs = <<>> THEN 0
    ELSE 10 * IntValue(SubSeq(cs, 1, Len(cs) - 1)) + DigitValue(cs[Len(cs)])

Float(cs) ==
    IF \E i \in 1..Len(cs) : cs[i] = "."
    THEN LET p == CHOOSE i \in 1..Len(cs) : cs[i] = "."
         IN 10 * IntValue(SubSeq(cs, 1, p - 1))
              + IntValue(SubSeq(cs, p + 1, Len(cs)))
    ELSE 10 * IntValue(cs)

\* The test of lines 93-101 with the comparison operators slipped to strict.
ItemQualifiesStrict(item, seg_start, seg_end) ==
    /\ "start_time" \in DOMAIN item
    /\ Float(item.start_time) > seg_start
    /\ Float(item.end_time) < seg_end
    /\ "alternatives" \in DOMAIN item
    /\ Len(item.alternatives) > 0

\* Lines 93-101: does the inner loop append this item's content?
ItemQualifies(item, seg_start, seg_end) ==
    /\ "start_time" \in DOMAIN item
    /\ Float(item.start_time) >= seg_start
    /\ Float(item.end_time) <= seg_end
    /\ "alternatives" \in DOMAIN item
    /\ Len(item.alternatives) > 0

RECURSIVE SegmentItemsFrom(_, _, _)
\* Lines 91-102: the indices of the items appended for one segment, in order.
SegmentItemsFrom(segment, items, i) ==
    IF i > Len(items) THEN <<>>
    ELSE (IF ItemQualifies(items[i], Float(segment.start_time),
                           Float(segment.end_time))
          THEN <<i>> ELSE <<>>) \o SegmentItemsFrom(segment, items, i + 1)

SegmentItems(segment, items) == SegmentItemsFrom(segment, items, 1)

\* Lines 90-102: segment_words after the inner loop.
SegmentWords(segment, items) ==
    LET idx == SegmentItems(segment, items)
    IN [j \in 1..Len(idx) |-> items[idx[j]].alternatives[1].content]

RECURSIVE SegmentLoopNoSkip(_, _, _)
\* Lines 81-106 without the test of line 105: the utterance of a segment with
\* no words is appended too.
SegmentLoopNoSkip(segments, items, acc) ==
    IF segments = <<>> THEN acc
    ELSE LET segment == Head(segments)
             speaker_label == segment.speaker_label
             d1 == DictSetDefault(acc, speaker_label)
             segment_words == SegmentWords(segment, items)
         IN SegmentLoopNoSkip(Tail(segments), items,
                DictAppend(d1, speaker_label, Join(" ", segment_words)))

RECURSIVE SegmentLoop(_, _, _)
\* Lines 81-106: the loop over speaker_segments, from dict `acc`.
SegmentLoop(segments, items, acc) ==
    IF segments = <<>> THEN acc
    ELSE LET segment == Head(segments)
             speaker_label == segment.speaker_label
             d1 == DictSetDefault(acc, speaker_label)
             segment_words == SegmentWords(segment, items)
             d2 == IF segment_words # <<>>
                   THEN DictAppend(d1, speaker_label, Join(" ", segment_words))
                   ELSE d1
         IN SegmentLoop(Tail(segments), items, d2)

\* Lines 74-110: the mapping built from the parsed document.
Reassemble(doc) ==
    JoinValues(IF "speaker_labels" \in DOMAIN doc.results
               THEN SegmentLoop(doc.results.speaker_labels.segments,
                                doc.results.items, <<>>)
               ELSE <<>>)

(***************************************************************************)
(* Amazon: the documents the result URL can serve.  A timed item           *)
(* (pronunciation) has start_time, end_time and alternatives; a            *)
(* punctuation item has no start_time.  The service emits windows with     *)
(* start_time <= end_time.                                                 *)
(***************************************************************************)
TimeStrs == {<<"0">>, <<"1">>, <<"2", ".", "5">>}

Windows == {w \in TimeStrs \X TimeStrs : Float(w[1]) <= Float(w[2])}

SpeakerLabels == {"spk0", "spk1"}

Segments ==
    {[speaker_label |-> l, start_time |-> w[1], end_time |-> w[2]] :
        l \in SpeakerLabels, w \in Windows}

AlternativeLists ==
    {<<>>, <<[content |-> "hi"]>>, <<[content |-> "yo"], [content |-> "hi"]>>}

TimedItems ==
    {[start_time |-> w[1], end_time |-> w[2], alternatives |-> a] :
        w \in Windows, a \in AlternativeLists}

PunctuationItems == {[alternatives |-> << [content |-> "."] >>]}

Items == TimedItems \cup PunctuationItems

\* The document built from the chosen parts; a document of a job run without
\* speaker labels has no results.speaker_labels.
Doc(has_labels, segs, its) ==
    IF has_labels
    THEN [results |-> [speaker_labels |-> [segments |-> segs], items |-> its]]
    ELSE [results |-> [items |-> its]]

\* The numbers of segments and items of the documents tried.
DocSizes ==
    {n \in (0..MaxDocLen) \X (0..MaxDocLen) : n[1] + n[2] <= MaxDocLen}

(***************************************************************************)
(* Amazon: format check (lines 30-37).                                     *)
(***************************************************************************)
\* Index of the first token of seq that is in set S, or Len(seq) + 1.
IndexOfAny(seq, S) ==
    IF \E i \in 1..Len(seq) : seq[i] \in S
    THEN CHOOSE i \in 1..Len(seq) :
            seq[i] \in S /\ \A j \in 1..(i - 1) : seq[j] \notin S
    ELSE Len(seq) + 1

Schemes == {"s3:", "https:"}

\* urlparse(url).path: the scheme and the //netloc are taken off the front,
\* the #fragment and then the ?query off the back.
UrlParsePath(url) ==
    LET afterScheme == IF url # <<>> /\ url[1] \in Schemes THEN Tail(url) ELSE url
        afterNetloc ==
            IF afterScheme # <<>> /\ afterScheme[1] = "//"
            THEN LET r == Tail(afterScheme)
                 IN SubSeq(r, IndexOfAny(r, {"/", "?", "#"}), Len(r))
            ELSE afterScheme
        noFragment == SubSeq(afterNetloc, 1, IndexOfAny(afterNetloc, {"#"}) - 1)
    IN SubSeq(noFragment, 1, IndexOfAny(noFragment, {"?"}) - 1)

\* str.lower() on one token.
Lower(tok) ==
    CASE tok = "MP3" -> "mp3"
      [] tok = "Wav" -> "wav"
      [] tok = "A" -> "a"
      [] OTHER -> tok

\* Index of the last "." of path, or 0.
LastDot(path) ==
    IF \E i \in 1..Len(path) : path[i] = "."
    THEN CHOOSE i \in 1..Len(path) :
            path[i] = "." /\ \A j \in (i + 1)..Len(path) : path[j] # "."
    ELSE 0

\* Line 32 with [-1] slipped to [1]: the part after the first "." up to the
\* second one (an IndexError, here the empty format, when there is no ".").
FileFormatSecondPart(url) ==
    LET path == UrlParsePath(url)
        rest == SubSeq(path, IndexOfAny(path, {"."}) + 1, Len(path))
        part == SubSeq(rest, 1, IndexOfAny(rest, {"."}) - 1)
    IN [i \in 1..Len(part) |-> Lower(part[i])]

\* Line 32: parsed_url.path.split('.')[-1].lower()
FileFormat(url) ==
    LET path == UrlParsePath(url)
        part == SubSeq(path, LastDot(path) + 1, Len(path))
    IN [i \in 1..Len(part) |-> Lower(part[i])]

\* Line 35
supported_formats ==
    {<<"mp3">>, <<"mp4">>, <<"wav">>, <<"flac">>, <<"ogg">>, <<"amr">>, <<"webm">>}

\* The arguments tried.
AudioFileUris ==
    {<<"s3:", "//", "bucket", "/", "a", ".", f>> :
        f \in {"mp3", "mp4", "wav", "flac", "ogg", "amr", "webm",
               "MP3", "Wav", "xyz", "m4a", "txt"}}
    \cup {<<"s3:", "//", "bucket", "/", "a">>,
          <<"s3:", "//", "bucket", "/", "mp3">>,
          <<"s3:", "//", "my", ".", "mp3", "/", "a">>,
          <<"s3:", "//", "bucket", "/", "a", ".", "tar", ".", "wav">>,
          <<"s3:", "//", "bucket", "/", "a", ".", "mp3", ".", "xyz">>,
          <<"s3:", "//", "bucket", "/", "a", ".", "mp3", "?", "v", ".", "xyz">>,
          <<"s3:", "//", "bucket", "/", "a", ".", "xyz", "#", ".", "mp3">>,
          <<"s3:", "//", "bucket", "/", "a", ".">>}

(***************************************************************************)
(* Google: aggregation of the long-running response (lines 326-357).       *)
(***************************************************************************)
RECURSIVE WordLoop(_, _)
\* Lines 342-353: the loop over words_info, from dict `acc`.
WordLoop(words_info, acc) ==
    IF words_info = <<>> THEN acc
    ELSE LET word_info == Head(words_info)
         IN IF "speaker_tag" \notin DOMAIN word_info
            THEN WordLoop(Tail(words_info), acc)
            ELSE WordLoop(Tail(words_info),
                          DictAppend(DictSetDefault(acc, word_info.speaker_tag),
                                     word_info.speaker_tag, word_info.word))

\* Lines 329-353 reading response.results[-1] alone, as the inline path's
\* line 162 does.
ResultLoopLastOnly(results, acc) ==
    IF results = <<>> THEN acc
    ELSE LET result == results[Len(results)]
         IN IF result.alternatives = <<>> THEN acc
            ELSE IF "words" \notin DOMAIN result.alternatives[1] THEN acc
            ELSE WordLoop(result.alternatives[1].words, acc)

RECURSIVE ResultLoop(_, _)
\* Lines 329-353: the loop over response.results, from dict `acc`.
ResultLoop(results, acc) ==
    IF results = <<>> THEN acc
    ELSE LET result == Head(results)
         IN IF result.alternatives = <<>>
            THEN ResultLoop(Tail(results), acc)
            ELSE IF "words" \notin DOMAIN result.alternatives[1]
            THEN ResultLoop(Tail(results), acc)
            ELSE ResultLoop(Tail(results),
                            WordLoop(result.alternatives[1].words, acc))

\* Lines 326-357: the mapping built from the response.
Aggregate(resp) == JoinValues(ResultLoop(resp.results, <<>>))

(***************************************************************************)
(* Google: the inline path's reading of the response (lines 155-192).      *)
(***************************************************************************)
\* Line 156 with the test for an empty response left out.
NoResultsUnchecked(resp) == FALSE

\* Line 156: len(response.results) == 0
NoResults(resp) == Len(resp.results) = 0

\* Lines 162-192, for a response that holds a result: the mapping built from
\* response.results[-1]; the early returns of lines 164-172 give {}.
InlineAggregate(resp) ==
    LET result == resp.results[Len(resp.results)]
    IN IF result.alternatives = <<>> THEN <<>>
       ELSE IF "words" \notin DOMAIN result.alternatives[1] THEN <<>>
       ELSE JoinValues(WordLoop(result.alternatives[1].words, <<>>))

(***************************************************************************)
(* Google: the responses operation.result() can give.  The size of a       *)
(* response is its number of results plus its number of first-alternative  *)
(* words.                                                                  *)
(***************************************************************************)
SpeakerTags == {1, 2}

WordTexts == {"hello", "world", "hi"}

WordInfos ==
    {[word |-> w, speaker_tag |-> t] : w \in WordTexts, t \in SpeakerTags}
    \cup {[word |-> "hi"]}

OtherAlternative ==
    [transcript |-> "other", words |-> <<[word |-> "other", speaker_tag |-> 2]>>]

\* The shapes of a result: its first alternative alone, followed by another
\* alternative, an alternative without words, and no alternative at all.
ResultShapes == {"one", "two", "no_words", "no_alternatives"}

RECURSIVE SumTo(_, _)
\* counts[1] + ... + counts[i]
SumTo(counts, i) == IF i = 0 THEN 0 ELSE SumTo(counts, i - 1) + counts[i]

\* The response of Len(shapes) results in which result i has shape shapes[i]
\* and its first alternative holds the next counts[i] words of `words`.
MakeResponse(shapes, counts, words) ==
    [results |->
        [i \in 1..Len(shapes) |->
            LET ws == SubSeq(words, SumTo(counts, i - 1) + 1, SumTo(counts, i))
                first == [transcript |-> "t", words |-> ws]
            IN CASE shapes[i] = "one" -> [alternatives |-> <<first>>]
                 [] shapes[i] = "two" -> [alternatives |-> <<first, OtherAlternative>>]
                 [] shapes[i] = "no_words" -> [alternatives |-> <<[transcript |-> "t"]>>]
                 [] OTHER -> [alternatives |-> <<>>]]]

\* The (number of results, number of words) of the responses tried.
ResponseSizes ==
    {n \in (0..MaxRespLen) \X (0..MaxRespLen) : n[1] + n[2] <= MaxRespLen}

\* A result without a first alternative's words holds none of the words.
WellShaped(shapes, counts, n_words) ==
    /\ SumTo(counts, Len(counts)) = n_words
    /\ \A i \in 1..Len(shapes) :
          shapes[i] \in {"no_words", "no_alternatives"} => counts[i] = 0

(***************************************************************************)
(* The remote services' other answers, and the arguments.                  *)
(***************************************************************************)
FailureReasons == {"bad audio", "access denied"}

JobStatuses ==
    {[TranscriptionJobStatus |-> "QUEUED"],
     [TranscriptionJobStatus |-> "IN_PROGRESS"],
     [TranscriptionJobStatus |-> "COMPLETED",
      Transcript |-> [TranscriptFileUri |-> "https://result"]]}
    \cup {[TranscriptionJobStatus |-> "FAILED", FailureReason |-> r] :
            r \in FailureReasons}

PollInterval == 10    \* time.sleep(10)

\* Line 92 with > slipped to >=.
UseGcsAtLimit(size) == size >= 10 * 1024 * 1024

\* Line 92: file_size > 10 * 1024 * 1024
UseGcs(size) == size > 10 * 1024 * 1024

\* The sizes os.path.getsize can report: an empty file, a file of exactly
\* 10 MB, and one byte more.
FileSizes == {0, 10 * 1024 * 1024, 10 * 1024 * 1024 + 1}

Timeouts == {0, PollInterval, MaxTimeout}

Jitter == 0..MaxJitter

(***************************************************************************)
(* The state at the entry of a call.                                       *)
(***************************************************************************)
Init ==
    /\ call \in {"amazon", "gcs"}
    /\ file_size = 0
    /\ pc = "entry"
    /\ outcome = "running"
    /\ error = None
    /\ calls = {}
    /\ created = FALSE
    /\ audio_file_uri \in (IF call = "amazon" THEN AudioFileUris ELSE {NoUri})
    /\ status = [TranscriptionJobStatus |-> None]
    /\ data = NoData
    /\ bucket_name \in (IF call = "gcs" THEN {None, "arg-bucket"} ELSE {None})
    /\ env_bucket \in (IF call = "gcs" THEN {None, "", "env-bucket"} ELSE {None})
    /\ timeout \in (IF call = "gcs" THEN Timeouts ELSE {0})
    /\ now = 0
    /\ start_time = 0
    /\ elapsed_time = 0
    /\ op_done = FALSE
    /\ response = NoData
    /\ speaker_transcripts = <<>>
    /\ cleanup_failed = FALSE

\* An exception leaves the function: nothing after the raise runs.
Raise(exc, msg) ==
    /\ outcome' = exc
    /\ error' = msg
    /\ pc' = "done"

AmazonLocals == <<audio_file_uri, status, data>>
GcsLocals == <<bucket_name, env_bucket, timeout, now, start_time,
               elapsed_time, op_done, response>>

(***************************************************************************)
(* transcribe_with_speaker_diarization (amazon), lines 12-118.             *)
(***************************************************************************)
\* Lines 30-37: the format check.
AmzCheckFormat ==
    /\ call = "amazon" /\ pc = "entry"
    /\ IF FileFormat(audio_file_uri) \notin supported_formats
       THEN Raise("ValueError", "unsupported format")
       ELSE pc' = "start" /\ UNCHANGED <<outcome, error>>
    /\ UNCHANGED <<call, file_size, calls, created, AmazonLocals, GcsLocals,
                   speaker_transcripts, cleanup_failed>>

\* Lines 42-51: start_transcription_job creates the job record, or raises.
\* audio_file_uri and file_format are not read after this call.
AmzStartJob ==
    /\ call = "amazon" /\ pc = "start"
    /\ calls' = calls \cup {"start_transcription_job"}
    /\ \/ /\ created' = TRUE
          /\ pc' = "poll"
          /\ audio_file_uri' = NoUri
          /\ UNCHANGED <<outcome, error>>
       \/ /\ Raise("ClientError", "start_transcription_job")
          /\ UNCHANGED <<created, audio_file_uri>>
    /\ UNCHANGED <<call, file_size, status, data, GcsLocals, speaker_transcripts,
                   cleanup_failed>>

\* Line 62 with the status compared to a string the service never sends.
JobFailedMisspelt(st) == st.TranscriptionJobStatus = "Failed"

\* Line 62: status['TranscriptionJob']['TranscriptionJobStatus'] == 'FAILED'
JobFailed(st) == st.TranscriptionJobStatus = "FAILED"

\* Lines 55-63: one get_transcription_job; a terminal status leaves the loop,
\* and FAILED raises with the job's FailureReason.
AmzPoll ==
    /\ call = "amazon" /\ pc = "poll"
    /\ calls' = calls \cup {"get_transcription_job"}
    /\ \/ \E st \in JobStatuses :
            /\ status' = st
            /\ IF st.TranscriptionJobStatus \in {"COMPLETED", "FAILED"}
               THEN IF JobFailed(st)
                    THEN Raise("Exception", st.FailureReason)
                    ELSE pc' = "fetch" /\ UNCHANGED <<outcome, error>>
               ELSE pc' = "sleep" /\ UNCHANGED <<outcome, error>>
       \/ /\ Raise("ClientError", "get_transcription_job")
          /\ UNCHANGED status
    /\ UNCHANGED <<call, file_size, created, audio_file_uri, data, GcsLocals,
                   speaker_transcripts, cleanup_failed>>

\* Lines 58-59: time.sleep(30), then the loop's next iteration.
AmzSleep ==
    /\ call = "amazon" /\ pc = "sleep"
    /\ pc' = "poll"
    /\ UNCHANGED <<call, file_size, outcome, error, calls, created, AmazonLocals,
                   GcsLocals, speaker_transcripts, cleanup_failed>>

\* Lines 66-71: the result document is downloaded and parsed, or urlopen raises.
AmzFetch ==
    /\ call = "amazon" /\ pc = "fetch"
    /\ calls' = calls \cup {"urlopen"}
    /\ \/ \E n \in DocSizes, has_labels \in BOOLEAN :
          \E segs \in [1..n[1] -> Segments], its \in [1..n[2] -> Items] :
            /\ has_labels \/ (n[1] = 0 /\ n[2] <= 1)
            /\ data' = Doc(has_labels, segs, its)
            /\ pc' = "reassemble"
            /\ UNCHANGED <<outcome, error>>
       \/ /\ Raise("URLError", "urlopen")
          /\ UNCHANGED data
    /\ UNCHANGED <<call, file_size, created, audio_file_uri, status, GcsLocals,
                   speaker_transcripts, cleanup_failed>>

\* Lines 113-116 without the try/except: the deletion's exception leaves the
\* function.
AmzDeleteJobUnguarded(raises) ==
    /\ calls' = calls \cup {"delete_transcription_job"}
    /\ cleanup_failed' = raises
    /\ IF raises
       THEN Raise("ClientError", "delete_transcription_job")
       ELSE outcome' = "returned" /\ error' = None /\ pc' = "done"

\* Lines 113-116: delete_transcription_job in try/except Exception.
\* `raises` is whether the service call raised.
AmzDeleteJob(raises) ==
    /\ calls' = calls \cup {"delete_transcription_job"}
    /\ cleanup_failed' = raises
    /\ outcome' = "returned"
    /\ error' = None
    /\ pc' = "done"

\* Lines 74-118: reassembly, the job's deletion, and the return.
AmzReassembleAndDelete ==
    /\ call = "amazon" /\ pc = "reassemble"
    /\ speaker_transcripts' = Reassemble(data)
    /\ \E raises \in BOOLEAN : AmzDeleteJob(raises)
    /\ UNCHANGED <<call, file_size, created, AmazonLocals, GcsLocals>>

(***************************************************************************)
(* transcribe_gcs_with_speaker_diarization (google), lines 206-372.        *)
(***************************************************************************)
\* Lines 224-227: the bucket name comes from the argument or the environment.
GcsBucketName ==
    /\ call = "gcs" /\ pc = "entry"
    /\ IF bucket_name = None /\ env_bucket \in {None, ""}
       THEN Raise("ValueError", "GCS_BUCKET_NAME")
       ELSE /\ pc' = "get_bucket"
            /\ UNCHANGED <<outcome, error>>
    /\ bucket_name' = IF bucket_name = None THEN env_bucket ELSE bucket_name
    /\ UNCHANGED <<call, file_size, calls, created, AmazonLocals, env_bucket, timeout, now,
                   start_time, elapsed_time, op_done, response,
                   speaker_transcripts, cleanup_failed>>

\* Lines 237-244: get_bucket; its exception is re-raised as ValueError.
GcsGetBucket ==
    /\ call = "gcs" /\ pc = "get_bucket"
    /\ calls' = calls \cup {"get_bucket"}
    /\ \/ pc' = "upload" /\ UNCHANGED <<outcome, error>>
       \/ Raise("ValueError", bucket_name)
    /\ UNCHANGED <<call, file_size, created, AmazonLocals, GcsLocals,
                   speaker_transcripts, cleanup_failed>>

\* Lines 247-248: the upload creates the object, or raises.
GcsUpload ==
    /\ call = "gcs" /\ pc = "upload"
    /\ calls' = calls \cup {"upload_from_filename"}
    /\ \/ /\ created' = TRUE
          /\ pc' = "recognize"
          /\ UNCHANGED <<outcome, error>>
       \/ /\ Raise("GoogleCloudError", "upload_from_filename")
          /\ UNCHANGED created
    /\ UNCHANGED <<call, file_size, AmazonLocals, GcsLocals, speaker_transcripts,
                   cleanup_failed>>

\* Lines 302-306: long_running_recognize starts the operation (or raises), and
\* start_time is taken.  bucket_name is not read by the code that follows
\* except in messages.
GcsRecognize ==
    /\ call = "gcs" /\ pc = "recognize"
    /\ calls' = calls \cup {"long_running_recognize"}
    /\ \/ /\ \E d \in Jitter : now' = now + d
          /\ start_time' = now'
          /\ pc' = "loop"
          /\ UNCHANGED <<outcome, error>>
       \/ /\ Raise("GoogleAPICallError", "long_running_recognize")
          /\ UNCHANGED <<now, start_time>>
    /\ UNCHANGED <<call, file_size, created, AmazonLocals, bucket_name, env_bucket,
                   timeout, elapsed_time, op_done, response,
                   speaker_transcripts, cleanup_failed>>

\* Line 311 with > slipped to >=.
TimedOutAtBudget(elapsed, budget) == elapsed >= budget

\* Line 311: elapsed_time > timeout
TimedOut(elapsed, budget) == elapsed > budget

\* Lines 309-312: the loop test operation.done(); when it is false the elapsed
\* time is computed and compared with the timeout.  When it is true the loop is
\* left: the arguments and clock readings are read no more (line 320 only
\* prints the duration).
GcsLoopTest ==
    /\ call = "gcs" /\ pc = "loop"
    /\ calls' = calls \cup {"done"}
    /\ \E d \in Jitter, is_done \in BOOLEAN :
         /\ op_done' = is_done
         /\ IF is_done
            THEN /\ pc' = "result"
                 /\ now' = 0 /\ start_time' = 0
                 /\ elapsed_time' = 0 /\ timeout' = 0
                 /\ bucket_name' = None
                 /\ env_bucket' = None
                 /\ UNCHANGED <<outcome, error>>
            ELSE /\ now' = now + d
                 /\ elapsed_time' = now' - start_time
                 /\ IF TimedOut(elapsed_time', timeout)
                    THEN Raise("TimeoutError", "timed out")
                    ELSE pc' = "sleep" /\ UNCHANGED <<outcome, error>>
                 /\ UNCHANGED <<timeout, start_time, bucket_name, env_bucket>>
    /\ UNCHANGED <<call, file_size, created, AmazonLocals, response,
                   speaker_transcripts, cleanup_failed>>

\* Line 318: time.sleep(10) lasts at least ten seconds.
GcsSleep ==
    /\ call = "gcs" /\ pc = "sleep"
    /\ \E d \in Jitter : now' = now + PollInterval + d
    /\ pc' = "loop"
    /\ UNCHANGED <<call, file_size, outcome, error, calls, created, AmazonLocals,
                   bucket_name, env_bucket, timeout, start_time, elapsed_time,
                   op_done, response, speaker_transcripts, cleanup_failed>>

\* Lines 320-321: operation.result() gives the response, or raises the
\* recognition's error.
GcsResult ==
    /\ call = "gcs" /\ pc = "result"
    /\ calls' = calls \cup {"result"}
    /\ \/ \E n \in ResponseSizes :
          \E shapes \in [1..n[1] -> ResultShapes],
             counts \in [1..n[1] -> 0..n[2]],
             words \in [1..n[2] -> WordInfos] :
            /\ WellShaped(shapes, counts, n[2])
            /\ response' = MakeResponse(shapes, counts, words)
            /\ pc' = "aggregate"
            /\ UNCHANGED <<outcome, error>>
       \/ /\ Raise("GoogleAPICallError", "result")
          /\ UNCHANGED response
    /\ UNCHANGED <<call, file_size, created, AmazonLocals, bucket_name, env_bucket,
                   timeout, now, start_time, elapsed_time, op_done,
                   speaker_transcripts, cleanup_failed>>

\* Lines 366-370: blob.delete() in try/except Exception.
GcsDeleteBlob(raises) ==
    /\ calls' = calls \cup {"blob.delete"}
    /\ cleanup_failed' = raises
    /\ outcome' = "returned"
    /\ error' = None
    /\ pc' = "done"

\* Lines 326-372: aggregation, the object's deletion, and the return.
GcsAggregateAndDelete ==
    /\ call = "gcs" /\ pc = "aggregate"
    /\ speaker_transcripts' = Aggregate(response)
    /\ \E raises \in BOOLEAN : GcsDeleteBlob(raises)
    /\ UNCHANGED <<call, file_size, created, AmazonLocals, GcsLocals>>

(***************************************************************************)
(* transcribe_file_with_speaker_diarization (google), lines 71-203.        *)
(***************************************************************************)
\* Lines 89-96: the file's size decides the mode.  A large file is handed to
\* transcribe_gcs_with_speaker_diarization (bucket_name left at its default,
\* timeout passed on), whose result or exception is this call's.  The inline
\* path reads neither the timeout nor the environment's bucket.
FileCheckSize ==
    /\ call = "file" /\ pc = "entry"
    /\ \/ \E size \in FileSizes :
            /\ file_size' = size
            /\ IF UseGcs(size)
               THEN /\ call' = "gcs"
                    /\ pc' = "entry"
                    /\ UNCHANGED <<timeout, env_bucket>>
               ELSE /\ pc' = "read"
                    /\ timeout' = 0
                    /\ env_bucket' = None
                    /\ UNCHANGED call
            /\ UNCHANGED <<outcome, error>>
       \/ /\ Raise("OSError", "getsize")
          /\ UNCHANGED <<call, file_size, timeout, env_bucket>>
    /\ UNCHANGED <<calls, created, AmazonLocals, bucket_name, now, start_time,
                   elapsed_time, op_done, response, speaker_transcripts,
                   cleanup_failed>>

\* Lines 103-104: the file is opened and read, or open raises.
FileRead ==
    /\ call = "file" /\ pc = "read"
    /\ \/ pc' = "recognize" /\ UNCHANGED <<outcome, error>>
       \/ Raise("OSError", "open")
    /\ UNCHANGED <<call, file_size, calls, created, AmazonLocals, GcsLocals,
                   speaker_transcripts, cleanup_failed>>

\* Lines 107-152: the configuration is built and client.recognize gives the
\* response, or raises.
FileRecognize ==
    /\ call = "file" /\ pc = "recognize"
    /\ calls' = calls \cup {"recognize"}
    /\ \/ \E n \in ResponseSizes :
          \E shapes \in [1..n[1] -> ResultShapes],
             counts \in [1..n[1] -> 0..n[2]],
             words \in [1..n[2] -> WordInfos] :
            /\ WellShaped(shapes, counts, n[2])
            /\ response' = MakeResponse(shapes, counts, words)
            /\ pc' = "aggregate"
            /\ UNCHANGED <<outcome, error>>
       \/ /\ Raise("GoogleAPICallError", "recognize")
          /\ UNCHANGED response
    /\ UNCHANGED <<call, file_size, created, AmazonLocals, bucket_name,
                   env_bucket, timeout, now, start_time, elapsed_time, op_done,
                   speaker_transcripts, cleanup_failed>>

\* Lines 155-203: an empty response returns {}; otherwise the mapping is built
\* from response.results[-1] (indexing an empty list raises IndexError) and
\* returned.
FileAggregate ==
    /\ call = "file" /\ pc = "aggregate"
    /\ IF NoResults(response)
       THEN /\ speaker_transcripts' = <<>>
            /\ outcome' = "returned" /\ error' = None /\ pc' = "done"
       ELSE IF response.results = <<>>
       THEN /\ Raise("IndexError", "list index out of range")
            /\ UNCHANGED speaker_transcripts
       ELSE /\ speaker_transcripts' = InlineAggregate(response)
            /\ outcome' = "returned" /\ error' = None /\ pc' = "done"
    /\ UNCHANGED <<call, file_size, calls, created, AmazonLocals, GcsLocals,
                   cleanup_failed>>

AmzNext ==
    \/ AmzCheckFormat
    \/ AmzStartJob
    \/ AmzPoll
    \/ AmzSleep
    \/ AmzFetch
    \/ AmzReassembleAndDelete

GcsNext ==
    \/ GcsBucketName
    \/ GcsGetBucket
    \/ GcsUpload
    \/ GcsRecognize
    \/ GcsLoopTest
    \/ GcsSleep
    \/ GcsResult
    \/ GcsAggregateAndDelete

Next == AmzNext \/ GcsNext

\* One call of either function.
Spec == Init /\ [][Next]_vars

\* One call of transcribe_with_speaker_diarization / of
\* transcribe_gcs_with_speaker_diarization in which the polling loop keeps
\* running: the interpreter takes the loop's next step (the status request or
\* the loop test, the sleep) whenever there is one, and the remote call and
\* time.sleep return.
AmzInit == Init /\ call = "amazon"
GcsInit == Init /\ call = "gcs"
FairAmzSpec == AmzInit /\ [][AmzNext]_vars /\ WF_vars(AmzPoll \/ AmzSleep)
FairGcsSpec == GcsInit /\ [][GcsNext]_vars /\ WF_vars(GcsLoopTest \/ GcsSleep)

\* One call of transcribe_file_with_speaker_diarization: its own steps, and
\* those of transcribe_gcs_with_speaker_diarization when it hands the file on.
\* The bucket_name argument is not passed on line 94.
FileInit ==
    /\ call = "file"
    /\ file_size = 0
    /\ pc = "entry"
    /\ outcome = "running"
    /\ error = None
    /\ calls = {}
    /\ created = FALSE
    /\ audio_file_uri = NoUri
    /\ status = [TranscriptionJobStatus |-> None]
    /\ data = NoData
    /\ bucket_name = None
    /\ env_bucket \in {None, "", "env-bucket"}
    /\ timeout \in Timeouts
    /\ now = 0
    /\ start_time = 0
    /\ elapsed_time = 0
    /\ op_done = FALSE
    /\ response = NoData
    /\ speaker_transcripts = <<>>
    /\ cleanup_failed = FALSE

FileSteps ==
    \/ FileCheckSize
    \/ FileRead
    \/ FileRecognize
    \/ FileAggregate

FileNext == FileSteps \/ GcsNext

FileSpec == FileInit /\ [][FileNext]_vars

(***************************************************************************)
(* What the claims speak of.                                               *)
(***************************************************************************)
AmzReturned == call = "amazon" /\ outcome = "returned"
GcsReturned == call = "gcs" /\ outcome = "returned"

\* The segments and items of the fetched document (no segments when the
\* document has no speaker_labels).
DocSegments ==
    IF "speaker_labels" \in DOMAIN data.results
    THEN data.results.speaker_labels.segments
    ELSE <<>>
DocItems == data.results.items

\* The segments (by position) whose inner loop appended item i.
AttributedTo(i) ==
    {s \in 1..Len(DocSegments) :
        \E j \in 1..Len(SegmentItems(DocSegments[s], DocItems)) :
            SegmentItems(DocSegments[s], DocItems)[j] = i}

\* The speaker labels item i's token went to.
SpeakersOf(i) == {DocSegments[s].speaker_label : s \in AttributedTo(i)}

\* C1 as stated: in the returned mapping every item's text went to at most one
\* speaker label, whatever the segment windows are (overlapping windows and
\* windows sharing a boundary point included).
C1_AtMostOneSpeaker ==
    AmzReturned => \A i \in 1..Len(DocItems) : Cardinality(SpeakersOf(i)) <= 1

\* C2 as stated: polling the job status does not go on forever: the loop is
\* left, by a terminal status or by an error raised after a timeout budget.
C2_PollingEnds ==
    (call = "amazon" /\ pc = "poll") ~> (pc \notin {"poll", "sleep"})

\* C3: in the long-running path (1) a TimeoutError is raised only when the time
\* elapsed since start_time is strictly greater than the timeout, (2)
\* operation.result() is called only after operation.done() returned true, and
\* (3) the polling loop is always left: operation.done() returns true or the
\* TimeoutError is raised.
C3_PollingTimesOut ==
    /\ [](outcome = "TimeoutError" => now - start_time > timeout)
    /\ []("result" \in calls => op_done)
    /\ (call = "gcs" /\ pc \in {"loop", "sleep"})
          ~> (op_done \/ outcome = "TimeoutError")

\* C3's case: operation.done() stayed false over one sleep at least and the
\* TimeoutError was raised, with no result read.
C3_Witness ==
    /\ outcome = "TimeoutError"
    /\ timeout = PollInterval
    /\ elapsed_time > PollInterval
    /\ ~op_done
    /\ "result" \notin calls

\* The text after the last "." of a path, lower-cased (the whole path when it
\* holds no "."), read from the right.
RECURSIVE ExtensionOf(_)
ExtensionOf(path) ==
    IF path = <<>> \/ path[Len(path)] = "." THEN <<>>
    ELSE Append(ExtensionOf(SubSeq(path, 1, Len(path) - 1)),
                Lower(path[Len(path)]))

UnsupportedExtension(url) ==
    ExtensionOf(UrlParsePath(url)) \notin
        {<<"mp3">>, <<"mp4">>, <<"wav">>, <<"flac">>, <<"ogg">>, <<"amr">>,
         <<"webm">>}

\* C4: a call whose URI path has an unsupported extension gets no further than
\* the format check: it ends with ValueError and no remote call was made.
\* (audio_file_uri is bound up to the start of the job.)
C4_UnsupportedFormatRejected ==
    (call = "amazon" /\ "start_transcription_job" \notin calls
        /\ UnsupportedExtension(audio_file_uri))
    => /\ calls = {}
       /\ pc = "entry" \/ (pc = "done" /\ outcome = "ValueError")

\* C4's case: the call with s3://bucket/a.xyz has ended with ValueError.
C4_Witness ==
    /\ call = "amazon"
    /\ audio_file_uri = <<"s3:", "//", "bucket", "/", "a", ".", "xyz">>
    /\ outcome = "ValueError"
    /\ calls = {}

\* C5: once polling has observed FAILED the call has raised an error carrying
\* the job's FailureReason; no result document was fetched or parsed and no
\* mapping is returned.
C5_JobFailureRaised ==
    (call = "amazon" /\ "get_transcription_job" \in calls
        /\ "TranscriptionJobStatus" \in DOMAIN status
        /\ status.TranscriptionJobStatus = "FAILED")
    => /\ pc = "done"
       /\ outcome = "Exception"
       /\ error = status.FailureReason
       /\ "urlopen" \notin calls
       /\ speaker_transcripts = <<>>

\* C5's case: the job failed for "bad audio" and the call raised.
C5_Witness ==
    /\ call = "amazon"
    /\ "get_transcription_job" \in calls
    /\ "FailureReason" \in DOMAIN status
    /\ status.FailureReason = "bad audio"
    /\ outcome = "Exception"

\* C6: a run in which the deletion was attempted ends by returning the mapping
\* built from the document (amazon) or the response (gcs), no error reaching
\* the caller, whether or not the deletion raised.
C6_CleanupFailureNotPropagated ==
    /\ (call = "amazon" /\ "delete_transcription_job" \in calls)
          => (outcome = "returned" /\ error = None
              /\ speaker_transcripts = Reassemble(data))
    /\ (call = "gcs" /\ "blob.delete" \in calls)
          => (outcome = "returned" /\ error = None
              /\ speaker_transcripts = Aggregate(response))

\* C6's case: the job's deletion raised and a non-empty mapping was returned.
C6_Witness ==
    /\ AmzReturned
    /\ cleanup_failed
    /\ speaker_transcripts # <<>>

\* C7 as stated: a run that created a remote resource has attempted its
\* deletion when it ends, however it ends.
C7_CreatedResourceDeleted ==
    (pc = "done" /\ created)
    => ("delete_transcription_job" \in calls \/ "blob.delete" \in calls)

\* The distinct elements of a sequence, in the order of their first appearance.
RECURSIVE DistinctInOrder(_)
DistinctInOrder(seq) ==
    IF seq = <<>> THEN <<>>
    ELSE LET front == DistinctInOrder(SubSeq(seq, 1, Len(seq) - 1))
             last == seq[Len(seq)]
         IN IF \E i \in 1..Len(front) : front[i] = last
            THEN front ELSE Append(front, last)

\* The item is timed and its window lies inside the segment's window.
Inside(item, segment) ==
    /\ "start_time" \in DOMAIN item
    /\ Float(segment.start_time) <= Float(item.start_time)
    /\ Float(item.end_time) <= Float(segment.end_time)

\* The item has a first alternative.
HasContent(item) == "alternatives" \in DOMAIN item /\ item.alternatives # <<>>

\* The items of a segment's utterance, and the utterance.
UtteranceItems(segment, items) ==
    SelectSeq(items, LAMBDA it : Inside(it, segment) /\ HasContent(it))

Utterance(segment, items) ==
    LET its == UtteranceItems(segment, items)
    IN Join(" ", [j \in 1..Len(its) |-> its[j].alternatives[1].content])

\* The mapping C8 describes: each label, in order of first appearance, with
\* the space-joined utterances of the segments that carry it: of all of them,
\* or (with_words_only) of those in which an item qualifies.
MappingOfUtterances(segments, items, with_words_only) ==
    LET labels == DistinctInOrder([s \in 1..Len(segments) |->
                                      segments[s].speaker_label])
    IN [l \in 1..Len(labels) |->
          LET own == SelectSeq(segments,
                        LAMBDA sg : /\ sg.speaker_label = labels[l]
                                    /\ with_words_only =>
                                          UtteranceItems(sg, items) # <<>>)
          IN [k |-> labels[l],
              v |-> Join(" ", [j \in 1..Len(own) |-> Utterance(own[j], items)])]]

ExampleDoc ==
    Doc(TRUE,
        <<[speaker_label |-> "spk0", start_time |-> <<"0">>, end_time |-> <<"1">>]>>,
        <<[start_time |-> <<"0">>, end_time |-> <<"1">>,
           alternatives |-> <<[content |-> "hi"]>>]>>)

TaggedWords(result) ==
    IF result.alternatives = <<>> THEN <<>>
    ELSE IF "words" \notin DOMAIN result.alternatives[1] THEN <<>>
    ELSE SelectSeq(result.alternatives[1].words,
                   LAMBDA w : "speaker_tag" \in DOMAIN w)

RECURSIVE AllTaggedWords(_)
\* The tagged words of all results, result after result.
AllTaggedWords(results) ==
    IF results = <<>> THEN <<>>
    ELSE AllTaggedWords(SubSeq(results, 1, Len(results) - 1))
            \o TaggedWords(results[Len(results)])

\* The mapping C9 describes.
MappingOfWords(results) ==
    LET all == AllTaggedWords(results)
        tags == DistinctInOrder([i \in 1..Len(all) |-> all[i].speaker_tag])
    IN [t \in 1..Len(tags) |->
          LET own == SelectSeq(all, LAMBDA w : w.speaker_tag = tags[t])
          IN [k |-> tags[t], v |-> Join(" ", [j \in 1..Len(own) |-> own[j].word])]]

\* The response of the spec's example.
ExampleResponse ==
    [results |-> <<[alternatives |-> <<[transcript |-> "t", words |->
        <<[word |-> "hello", speaker_tag |-> 1],
          [word |-> "world", speaker_tag |-> 1],
          [word |-> "hi", speaker_tag |-> 2]>>]>>]>>]

\* C9: the long-running path returns, for each speaker tag in order of first
\* appearance, the space-joined words carrying the tag, in their order within
\* each result's first alternative and across results.  The example gives
\* {1: hello world, 2: hi}.
C9_WordsJoinedPerTag ==
    GcsReturned =>
        /\ speaker_transcripts = MappingOfWords(response.results)
        /\ response = ExampleResponse =>
              speaker_transcripts = <<[k |-> 1, v |-> "hello world"],
                                      [k |-> 2, v |-> "hi"]>>

\* C9's case: two results whose words reach the mapping, the second speaker's
\* first.
C9_Witness ==
    /\ GcsReturned
    /\ Len(response.results) = 2
    /\ TaggedWords(response.results[1]) # <<>>
    /\ TaggedWords(response.results[2]) # <<>>
    /\ speaker_transcripts = <<[k |-> 2, v |-> "hello world"]>>

\* The timed items (by position), and the pairwise disjointness of windows
\* (windows may share a boundary point).
TimedItemIndices == {i \in 1..Len(DocItems) : "start_time" \in DOMAIN DocItems[i]}

Apart(a, b) ==
    \/ Float(a.end_time) <= Float(b.start_time)
    \/ Float(b.end_time) <= Float(a.start_time)

DisjointWindows ==
    /\ \A s, t \in 1..Len(DocSegments) :
          s # t => Apart(DocSegments[s], DocSegments[t])
    /\ \A i, j \in TimedItemIndices : i # j => Apart(DocItems[i], DocItems[j])

\* The segments whose window holds item i's window.
Holding(i) == {s \in 1..Len(DocSegments) : Inside(DocItems[i], DocSegments[s])}

Answered == response # NoData /\ pc = "done"

\* The results that hold an alternative.
WithAlternatives(results) == SelectSeq(results, LAMBDA r : r.alternatives # <<>>)

LacksAlternatives(resp) ==
    \E i \in 1..Len(resp.results) : resp.results[i].alternatives = <<>>

\* C11: a response with zero results gives the empty mapping and no error, in
\* the inline mode and in the long-running mode; a result without alternatives
\* adds nothing to the mapping and raises nothing: the long-running mode builds
\* the mapping of the other results, the inline mode that of the last result
\* when it is one of them and the empty mapping otherwise.
C11_EmptyResponseTolerated ==
    /\ (Answered /\ response.results = <<>>) =>
          /\ outcome = "returned" /\ error = None
          /\ speaker_transcripts = <<>>
    /\ (Answered /\ LacksAlternatives(response)) =>
          /\ outcome = "returned" /\ error = None
          /\ call = "gcs" =>
                speaker_transcripts
                    = MappingOfWords(WithAlternatives(response.results))
          /\ call = "file" =>
                speaker_transcripts
                    = MappingOfWords(WithAlternatives(
                          <<response.results[Len(response.results)]>>))

\* C11's case: the inline mode has returned on a response without results.
C11_Witness ==
    /\ call = "file" /\ outcome = "returned"
    /\ response # NoData /\ response.results = <<>>
    /\ speaker_transcripts = <<>>
    /\ "recognize" \in calls

(***************************************************************************)
(* Google: the choice of the mode.                                         *)
(***************************************************************************)
GcsCalls == {"get_bucket", "upload_from_filename", "long_running_recognize",
             "done", "result", "blob.delete"}

\* C12: a file larger than 10 MB is recognized by long_running_recognize alone
\* and after its upload; a file of at most 10 MB by recognize alone, without
\* upload or polling; no run calls both.
C12_ModeBySize ==
    /\ file_size > 10 * 1024 * 1024 =>
          /\ "recognize" \notin calls
          /\ "long_running_recognize" \in calls =>
                "upload_from_filename" \in calls /\ created
          /\ outcome = "returned" => "long_running_recognize" \in calls
    /\ file_size <= 10 * 1024 * 1024 =>
          /\ calls \cap GcsCalls = {}
          /\ ~created
          /\ outcome = "returned" => "recognize" \in calls
    /\ ~({"recognize", "long_running_recognize"} \subseteq calls)

\* C12's case: a file one byte over 10 MB went through upload and
\* long_running_recognize, and the call returned.
C12_Witness ==
    /\ file_size = 10 * 1024 * 1024 + 1
    /\ outcome = "returned"
    /\ {"upload_from_filename", "long_running_recognize"} \subseteq calls
    /\ "recognize" \notin calls

(***************************************************************************)
(* Google: the two modes on the same response.                             *)
(***************************************************************************)
\* C13: the mapping the inline mode returns for a response is the mapping the
\* long-running mode builds from that response.
C13_ModesAgree ==
    (call = "file" /\ outcome = "returned" /\ response # NoData) =>
        speaker_transcripts = Aggregate(response)

=============================================================================
